---- MODULE Spec2Model ----
(***************************************************************************)
(* Pulse machine of src/bin/day20.rs: a network of broadcaster, flip-flop  *)
(* and conjunction modules, the FIFO simulation of one button press and    *)
(* the cycle-detecting PulseMachine::pulses.                                *)
(*                                                                         *)
(* Strings the program builds (the state key) are sequences of tokens.     *)
(* u32 values that can grow with the press count are kept as little-endian *)
(* sequences of 15-bit limbs, so that 32-bit wrap-around is computed       *)
(* exactly; counts bounded by the length of a press or of the history are  *)
(* plain naturals.                                                          *)
(***************************************************************************)
EXTENDS Integers, Sequences, FiniteSets, TLC

\* ------------------------------------------------------------------ bounds

\* pulses is called with every press count 0..MaxPresses (and the two
\* larger ones of PressCounts).
MaxPresses == 10

\* A press is followed for at most MaxEvents dequeued events.
MaxEvents == 32

\* ------------------------------------------------------- wide arithmetic

Limb == 2 ^ 15
LimbIdx == 1 .. 5
NLimbs == Cardinality(LimbIdx)

RECURSIVE Carry(_, _, _)
\* Carry propagation over limbs i..NLimbs of f (entries below 2^31).
Carry(f, i, c) ==
    IF i > NLimbs THEN <<>>
    ELSE <<(f[i] + c) % Limb>> \o Carry(f, i + 1, (f[i] + c) \div Limb)

Wide(n) == Carry([k \in LimbIdx |-> IF k = 1 THEN n ELSE 0], 1, 0)
WAdd(a, b) == Carry([k \in LimbIdx |-> a[k] + b[k]], 1, 0)
WMulLimb(a, d) == Carry([k \in LimbIdx |-> a[k] * d], 1, 0)
WShift(a, n) == [k \in LimbIdx |-> IF k > n THEN a[k - n] ELSE 0]

RECURSIVE WMulFrom(_, _, _)
WMulFrom(a, b, j) ==
    IF j > NLimbs THEN Wide(0)
    ELSE WAdd(WShift(WMulLimb(a, b[j]), j - 1), WMulFrom(a, b, j + 1))

WMul(a, b) == WMulFrom(a, b, 1)

RECURSIVE WLessFrom(_, _, _)
WLessFrom(a, b, k) ==
    IF k = 0 THEN FALSE
    ELSE IF a[k] # b[k] THEN a[k] < b[k]
    ELSE WLessFrom(a, b, k - 1)

WLess(a, b) == WLessFrom(a, b, NLimbs)

RECURSIVE Borrow(_, _, _, _)
Borrow(a, b, i, c) ==
    IF i > NLimbs THEN <<>>
    ELSE LET d == a[i] - b[i] - c
         IN  <<IF d < 0 THEN d + Limb ELSE d>>
                 \o Borrow(a, b, i + 1, IF d < 0 THEN 1 ELSE 0)

\* a - b for a >= b.
WSub(a, b) == Borrow(a, b, 1, 0)

RECURSIVE DivFrom(_, _, _, _)
\* Long division by a divisor d below 2^15, from the top limb down.
DivFrom(a, d, k, r) ==
    IF k = 0 THEN <<>>
    ELSE DivFrom(a, d, k - 1, (r * Limb + a[k]) % d)
             \o <<(r * Limb + a[k]) \div d>>

WDiv(a, d) == DivFrom(a, d, NLimbs, 0)

\* The value of a wide number known to be below 2^30.
WNat(a) == a[1] + a[2] * Limb

\* u32: the low 32 bits (15 + 15 + 2).
WrapU32(a) == [k \in LimbIdx |-> IF k < 3 THEN a[k] ELSE IF k = 3 THEN a[3] % 4 ELSE 0]
FitsU32(a) == WrapU32(a) = a
U32Max == [k \in LimbIdx |-> IF k < 3 THEN Limb - 1 ELSE IF k = 3 THEN 3 ELSE 0]

\* ------------------------------------------------------------------ names

\* Every name a network of Networks uses, in the order of Rust's str Ord.
NameOrder ==
    <<"a", "b", "broadcaster", "button", "c", "con", "inv", "out", "output">>

Rank(n) == CHOOSE k \in 1 .. Len(NameOrder) : NameOrder[k] = n

BROADCASTER_ID == "broadcaster"

Low == "Low"
High == "High"

\* impl Display for Pulse
PulseDisplay(p) == IF p = Low THEN "low" ELSE "high"

NoInputs == [x \in {} |-> Low]

MapInsert(map, k, v) ==
    [x \in DOMAIN map \cup {k} |-> IF x = k THEN v ELSE map[x]]

Contains(seq, x) == \E k \in 1 .. Len(seq) : seq[k] = x

\* ---------------------------------------------------------------- modules

Broadcaster(destinations) ==
    [kind |-> "Broadcaster", id |-> BROADCASTER_ID,
     destinations |-> destinations, on |-> FALSE, inputs |-> NoInputs]

FlipFlopNew(id, destinations) ==
    [kind |-> "FlipFlop", id |-> id,
     destinations |-> destinations, on |-> FALSE, inputs |-> NoInputs]

ConjunctionNew(id, destinations) ==
    [kind |-> "Conjunction", id |-> id,
     destinations |-> destinations, on |-> FALSE, inputs |-> NoInputs]

AddInput(conjunction, input_id) ==
    [conjunction EXCEPT !.inputs = MapInsert(@, input_id, Low)]

\* A line of the input text, already split: its prefix ("broadcaster", "%"
\* or "&"), the module id and the destination list.
Line(prefix, id, destinations) ==
    [prefix |-> prefix, id |-> id, destinations |-> destinations]

RECURSIVE InsertModules(_, _)
\* modules.insert for each module of seq, in order (a later one replaces an
\* earlier one of the same id).
InsertModules(modules, seq) ==
    IF seq = <<>> THEN modules
    ELSE InsertModules(MapInsert(modules, Head(seq).id, Head(seq)), Tail(seq))

RECURSIVE ParseLines(_)
\* First loop of from_str: the broadcaster and flip-flops of the text.
ParseLines(lines) ==
    IF lines = <<>> THEN <<>>
    ELSE LET l == Head(lines)
         IN  (IF l.prefix = BROADCASTER_ID THEN <<Broadcaster(l.destinations)>>
              ELSE IF l.prefix = "%" THEN <<FlipFlopNew(l.id, l.destinations)>>
              ELSE <<>>) \o ParseLines(Tail(lines))

RECURSIVE ParseConjunctions(_)
ParseConjunctions(lines) ==
    IF lines = <<>> THEN <<>>
    ELSE LET l == Head(lines)
         IN  (IF l.prefix = "&" THEN <<ConjunctionNew(l.id, l.destinations)>>
              ELSE <<>>) \o ParseConjunctions(Tail(lines))

RECURSIVE AddInputs(_, _)
AddInputs(conjunction, ids) ==
    IF ids = {} THEN conjunction
    ELSE LET x == CHOOSE y \in ids : TRUE
         IN  AddInputs(AddInput(conjunction, x), ids \ {x})

\* Second loop of from_str: the inputs of a conjunction are the modules
\* already in the map whose destinations contain its id.
WireConjunction(modules, conjunction) ==
    AddInputs(conjunction,
              {modules[k].id : k \in {x \in DOMAIN modules :
                  Contains(modules[x].destinations, conjunction.id)}})

FromStr(lines) ==
    LET modules == InsertModules(NoInputs, ParseLines(lines))
        conjunctions == ParseConjunctions(lines)
        wired == [k \in 1 .. Len(conjunctions) |->
                     WireConjunction(modules, conjunctions[k])]
    IN  InsertModules(modules, wired)

\* ------------------------------------------------------------ handle_pulse

Emit(destinations, pulse) ==
    [k \in 1 .. Len(destinations) |-> <<destinations[k], pulse>>]

\* Mutant: the broadcaster sends low pulses whatever it received.
BroadcasterHandlePulseLow(module, pulse, source) ==
    [module |-> module, out |-> Emit(module.destinations, Low)]

BroadcasterHandlePulse(module, pulse, source) ==
    [module |-> module, out |-> Emit(module.destinations, pulse)]

\* Mutant: the pulse sent tells the state before the toggle.
FlipFlopHandlePulseStale(module, pulse, source) ==
    IF pulse = Low
    THEN [module |-> [module EXCEPT !.on = ~module.on],
          out |-> Emit(module.destinations, IF module.on THEN High ELSE Low)]
    ELSE [module |-> module, out |-> <<>>]

\* Mutant: a low pulse switches the flip-flop on and never off.
FlipFlopHandlePulseSticky(module, pulse, source) ==
    IF pulse = Low
    THEN [module |-> [module EXCEPT !.on = TRUE],
          out |-> Emit(module.destinations, High)]
    ELSE [module |-> module, out |-> <<>>]

\* Mutant: a flip-flop that sends forgets its destinations.
FlipFlopHandlePulseUnwiring(module, pulse, source) ==
    IF pulse = Low
    THEN [module |-> [module EXCEPT !.on = ~module.on, !.destinations = <<>>],
          out |-> Emit(module.destinations, IF ~module.on THEN High ELSE Low)]
    ELSE [module |-> module, out |-> <<>>]

FlipFlopHandlePulse(module, pulse, source) ==
    IF pulse = Low
    THEN LET on == ~module.on
             outbound_pulse == IF on THEN High ELSE Low
         IN  [module |-> [module EXCEPT !.on = on],
              out |-> Emit(module.destinations, outbound_pulse)]
    ELSE [module |-> module, out |-> <<>>]

\* Mutant: Low as soon as any input is High.
ConjunctionHandlePulseAny(module, pulse, source) ==
    LET inputs == MapInsert(module.inputs, source, pulse)
        outbound_pulse ==
            IF \E x \in DOMAIN inputs : inputs[x] = High THEN Low ELSE High
    IN  [module |-> [module EXCEPT !.inputs = inputs],
         out |-> Emit(module.destinations, outbound_pulse)]

\* Mutant: the pulse sent is decided before the received one is stored.
ConjunctionHandlePulseStale(module, pulse, source) ==
    LET outbound_pulse ==
            IF \A x \in DOMAIN module.inputs : module.inputs[x] = High
            THEN Low ELSE High
    IN  [module |-> [module EXCEPT
                        !.inputs = MapInsert(module.inputs, source, pulse)],
         out |-> Emit(module.destinations, outbound_pulse)]

ConjunctionHandlePulse(module, pulse, source) ==
    LET inputs == MapInsert(module.inputs, source, pulse)
        outbound_pulse ==
            IF \A x \in DOMAIN inputs : inputs[x] = High THEN Low ELSE High
    IN  [module |-> [module EXCEPT !.inputs = inputs],
         out |-> Emit(module.destinations, outbound_pulse)]

\* Dispatch of the dyn Module call.
HandlePulse(module, pulse, source) ==
    IF module.kind = "Broadcaster" THEN BroadcasterHandlePulse(module, pulse, source)
    ELSE IF module.kind = "FlipFlop" THEN FlipFlopHandlePulse(module, pulse, source)
    ELSE ConjunctionHandlePulse(module, pulse, source)

Event(source, destination, pulse) ==
    [source |-> source, destination |-> destination, pulse |-> pulse]

\* The events enqueue_pulses pushes for the pulses a module returned.
EnqueuePulses(id, out) ==
    [k \in 1 .. Len(out) |-> Event(id, out[k][1], out[k][2])]

\* ------------------------------------------------------------- state keys

\* Order of two formatted strings "<name>:..." or "<name>=...": the
\* separator sorts before every letter, so the names decide.
StrLeq(s, t) == Rank(s[1]) <= Rank(t[1])

RECURSIVE SortStrings(_)
SortStrings(S) ==
    IF S = {} THEN <<>>
    ELSE LET m == CHOOSE x \in S : \A y \in S : StrLeq(x, y)
         IN  <<m>> \o SortStrings(S \ {m})

RECURSIVE Join(_, _)
Join(strings, sep) ==
    IF strings = <<>> THEN <<>>
    ELSE IF Len(strings) = 1 THEN strings[1]
    ELSE strings[1] \o <<sep>> \o Join(Tail(strings), sep)

BroadcasterState(module) == <<>>

FlipFlopState(module) == <<IF module.on THEN "on" ELSE "off">>

ConjunctionState(module) ==
    Join(SortStrings({<<x, "=", PulseDisplay(module.inputs[x])>> :
                         x \in DOMAIN module.inputs}), ",")

ModuleState(module) ==
    IF module.kind = "Broadcaster" THEN BroadcasterState(module)
    ELSE IF module.kind = "FlipFlop" THEN FlipFlopState(module)
    ELSE ConjunctionState(module)

\* PulseMachine::state
StateKey(modules) ==
    Join(SortStrings({<<modules[k].id, ":">> \o ModuleState(modules[k]) :
                         k \in {x \in DOMAIN modules :
                                   modules[x].id # BROADCASTER_ID}}), ";")

\* The orders in which a hash map with these keys can be iterated.
Orders(keys) ==
    {f \in [1 .. Cardinality(keys) -> keys] :
        \A m, n \in DOMAIN f : f[m] = f[n] => m = n}

\* Mutant: the vector is left in the order it was collected in.
Unsorted(strings) == strings

\* Vec::sort of formatted strings that begin with different names.
VecSort(strings) == SortStrings({strings[k] : k \in DOMAIN strings})

\* PulseMachine::state when modules.values() yields the modules in this
\* order.
State(mods, order) ==
    LET kept == SelectSeq(order, LAMBDA k : mods[k].id # BROADCASTER_ID)
        collected ==
            [n \in DOMAIN kept |->
                <<mods[kept[n]].id, ":">> \o ModuleState(mods[kept[n]])]
    IN  Join(VecSort(collected), ";")

\* ---------------------------------------------------------------- inputs

\* The two networks of test_pulses.
Example1 ==
    <<Line("broadcaster", BROADCASTER_ID, <<"a", "b", "c">>),
      Line("%", "a", <<"b">>), Line("%", "b", <<"c">>),
      Line("%", "c", <<"inv">>), Line("&", "inv", <<"a">>)>>

Example2 ==
    <<Line("broadcaster", BROADCASTER_ID, <<"a">>),
      Line("%", "a", <<"inv", "con">>), Line("&", "inv", <<"b">>),
      Line("%", "b", <<"con">>), Line("&", "con", <<"output">>)>>

\* A conjunction fed by a conjunction.
Chain ==
    <<Line("broadcaster", BROADCASTER_ID, <<"a">>), Line("%", "a", <<"inv">>),
      Line("&", "inv", <<"con">>), Line("&", "con", <<"output">>)>>

\* A conjunction wired to itself.
SelfConj ==
    <<Line("broadcaster", BROADCASTER_ID, <<"inv">>), Line("&", "inv", <<"inv">>)>>

\* A flip-flop wired to itself twice.
DupLoop ==
    <<Line("broadcaster", BROADCASTER_ID, <<"a">>), Line("%", "a", <<"a", "a">>)>>

Empty == <<>>

NoBroadcaster == <<Line("%", "a", <<"b">>), Line("%", "b", <<"out">>)>>

\* A flip-flop that carries the broadcaster's name.
FlipFlopEntry == <<Line("%", "broadcaster", <<"a">>), Line("%", "a", <<"out">>)>>

\* Duplicate and dangling destinations.
DupDangling ==
    <<Line("broadcaster", BROADCASTER_ID, <<"a", "a", "out">>),
      Line("%", "a", <<"b", "out">>), Line("%", "b", <<"out">>)>>

Acyclic ==
    <<Line("broadcaster", BROADCASTER_ID, <<"a", "b">>), Line("%", "a", <<"con">>),
      Line("%", "b", <<"con">>), Line("&", "con", <<"out">>)>>

\* A conjunction with a duplicate destination.
DupConj ==
    <<Line("broadcaster", BROADCASTER_ID, <<"a", "b">>), Line("%", "a", <<"con">>),
      Line("%", "b", <<"con">>), Line("&", "con", <<"out", "out">>)>>

\* A flip-flop that sends to the broadcaster.
Feedback ==
    <<Line("broadcaster", BROADCASTER_ID, <<"a", "out">>),
      Line("%", "a", <<"broadcaster">>)>>

\* Flip-flops in loops: the state first repeats after eight presses, and
\* comes back to the state before the fifth.
Transient ==
    <<Line("broadcaster", BROADCASTER_ID, <<"a">>), Line("%", "a", <<"c", "out">>),
      Line("%", "b", <<"b">>), Line("%", "c", <<"b", "b">>)>>

\* Every network of a broadcaster and two modules a and b, each a flip-flop
\* or a conjunction, with these destination lists. The broadcaster sends to
\* a first: the other networks are these with a and b exchanged.
DestLists == {<<"a">>, <<"b">>, <<"a", "b">>, <<"out">>}

EntryLists == {<<"a">>, <<"a", "b">>}

Generated ==
    {<<Line("broadcaster", BROADCASTER_ID, x), Line(k1, "a", y), Line(k2, "b", z)>> :
        x \in EntryLists, y \in DestLists, z \in DestLists,
        k1 \in {"%", "&"}, k2 \in {"%", "&"}}

Networks ==
    Generated \cup
    {Example1, Example2, Chain, SelfConj, DupLoop, Empty, NoBroadcaster,
     FlipFlopEntry, DupDangling, Acyclic, DupConj, Feedback, Transient}

PressCounts == {Wide(n) : n \in 0 .. MaxPresses} \cup {Wide(1000), U32Max}

\* ------------------------------------------------------------------ state

VARIABLES
    lines,            \* the text from_str was given
    overflow_checks,  \* the build: whether u32 arithmetic checks for overflow
    button_presses,   \* the argument of pulses
    modules,          \* PulseMachine.modules
    pc,               \* "loop": head of the for loop of pulses; "press":
                      \* inside the while loop of handle_button_press;
                      \* "done": pulses has returned or panicked
    i,                \* iterations of the for loop begun
    state,            \* pulses: state
    pulse_queue,      \* handle_button_press: pulse_queue
    tally,            \* handle_button_press: low_pulses, high_pulses
    previous_states,  \* pulses: previous_states
    state_cache,      \* pulses: state_cache
    total,            \* pulses: low_pulses, high_pulses
    result,           \* what pulses returned
    pushed,           \* history: the events pushed to the back of the queue
                      \* in the current press, in the order of the pushes
    handled,          \* history: the events popped in the current press, in
                      \* the order of the pops, each with what the module
                      \* it was addressed to returned
    visited           \* history: the (modules, pulse_queue) pairs the while
                      \* loop of the current press has been in

vars ==
    <<lines, overflow_checks, button_presses, modules, pc, i, state,
      pulse_queue, tally, previous_states, state_cache, total, result,
      pushed, handled, visited>>

Tally(low, high) == [low |-> low, high |-> high]

NoResult == [status |-> "none", low |-> Wide(0), high |-> Wide(0)]
Returned(low, high) == [status |-> "ok", low |-> low, high |-> high]
Panicked == [status |-> "panic", low |-> Wide(0), high |-> Wide(0)]

Init ==
    /\ lines \in Networks
    /\ overflow_checks \in BOOLEAN
    /\ button_presses \in PressCounts
    /\ modules = FromStr(lines)
    /\ pc = "loop"
    /\ i = 0
    /\ state = <<>>
    /\ pulse_queue = <<>>
    /\ tally = Tally(0, 0)
    /\ previous_states = <<>>
    /\ state_cache = NoInputs
    /\ total = Tally(0, 0)
    /\ result = NoResult
    /\ pushed = <<>>
    /\ handled = <<>>
    /\ visited = {}

\* ---------------------------------------------------- handle_button_press

\* Mutant: the button sends a high pulse.
ButtonEventHigh == Event("button", BROADCASTER_ID, High)

ButtonEvent == Event("button", BROADCASTER_ID, Low)

\* Mutant: the head of the queue is read and left in place.
PopFrontKept(queue) == queue

\* What pulse_queue.pop_front() leaves in the queue.
PopFront(queue) == Tail(queue)

\* Mutant: only low pulses are counted.
CountLowOnly(t, pulse) ==
    IF pulse = Low THEN Tally(t.low + 1, t.high) ELSE t

Count(t, pulse) ==
    IF pulse = Low THEN Tally(t.low + 1, t.high) ELSE Tally(t.low, t.high + 1)

\* Mutant: a pulse to a name that is no module is sent back to its source.
DeliverBounced(mods, event) ==
    IF event.destination \in DOMAIN mods
    THEN LET r == HandlePulse(mods[event.destination], event.pulse, event.source)
         IN  [modules |-> [mods EXCEPT ![event.destination] = r.module],
              out |-> r.out,
              events |-> EnqueuePulses(r.module.id, r.out)]
    ELSE [modules |-> mods, out |-> <<>>,
          events |-> <<Event(event.destination, event.source, event.pulse)>>]

\* The body of the while loop after the tally: the module the event is
\* addressed to, if there is one, handles the pulse and what it sends is
\* enqueued.
Deliver(mods, event) ==
    IF event.destination \in DOMAIN mods
    THEN LET r == HandlePulse(mods[event.destination], event.pulse, event.source)
         IN  [modules |-> [mods EXCEPT ![event.destination] = r.module],
              out |-> r.out,
              events |-> EnqueuePulses(r.module.id, r.out)]
    ELSE [modules |-> mods, out |-> <<>>, events |-> <<>>]

\* Mutant: new events go to the front of the queue.
PushFront(queue, events) == events \o queue

\* The queue after the push_back calls of enqueue_pulses.
PushBack(queue, events) == queue \o events

\* Mutant: the for loop runs once more than button_presses times.
HasNextInclusive(n, presses) == ~WLess(presses, Wide(n))

\* for _ in 0..button_presses: whether there is an iteration after n.
HasNext(n, presses) == WLess(Wide(n), presses)

\* pulses, lines 49-52, and handle_button_press up to its loop.
BeginPress ==
    /\ pc = "loop"
    /\ HasNext(i, button_presses)
    /\ i' = i + 1
    /\ \E order \in Orders(DOMAIN modules) : state' = State(modules, order)
    /\ pulse_queue' = <<ButtonEvent>>
    /\ pushed' = <<ButtonEvent>>
    /\ handled' = <<>>
    /\ tally' = Tally(0, 0)
    /\ pc' = "press"
    /\ visited' = {}
    /\ UNCHANGED <<lines, overflow_checks, button_presses, modules,
                   previous_states, state_cache, total, result>>

\* The while loop is where it has been before in this press: as an
\* iteration is a function of the modules and the queue, it never ends.
Recurs == pc = "press" /\ <<modules, pulse_queue>> \in visited

\* One iteration of the while loop of handle_button_press. A press is not
\* followed once it is known not to end.
DeliverPulse ==
    /\ pc = "press"
    /\ pulse_queue # <<>>
    /\ ~Recurs
    /\ tally.low + tally.high < MaxEvents
    /\ visited' = visited \cup {<<modules, pulse_queue>>}
    /\ LET event == Head(pulse_queue)
           d == Deliver(modules, event)
       IN  /\ tally' = Count(tally, event.pulse)
           /\ modules' = d.modules
           /\ pulse_queue' = PushBack(PopFront(pulse_queue), d.events)
           /\ pushed' = pushed \o d.events
           /\ handled' = Append(handled, [event |-> event, out |-> d.out])
    /\ UNCHANGED <<lines, overflow_checks, button_presses, pc, i, state,
                   previous_states, state_cache, total, result>>

\* ----------------------------------------------------------------- pulses

\* Mutant: the search skips the first recorded state.
PositionSkippingFirst(states, s) ==
    IF \E k \in 2 .. Len(states) : states[k] = s
    THEN (CHOOSE k \in 2 .. Len(states) :
              states[k] = s /\ \A m \in 2 .. k - 1 : states[m] # s) - 1
    ELSE -1

\* previous_states.iter().position(|s| s == &state), or -1 for None.
Position(states, s) ==
    IF \E k \in 1 .. Len(states) : states[k] = s
    THEN (CHOOSE k \in 1 .. Len(states) :
              states[k] = s /\ \A m \in 1 .. k - 1 : states[m] # s) - 1
    ELSE -1

RECURSIVE SumPulses(_, _)
\* map(|s| state_cache.get(s).unwrap()).reduce(sum).unwrap_or((0, 0)); the
\* sum of the tallies of a history is far below 2^32.
SumPulses(states, cache) ==
    IF states = <<>> THEN Tally(0, 0)
    ELSE LET rest == SumPulses(Tail(states), cache)
         IN  Tally(cache[Head(states)].low + rest.low,
                   cache[Head(states)].high + rest.high)

\* u32 multiplication and addition: the wrapped value and whether the
\* exact one did not fit.
MulU32(a, b) == [val |-> WrapU32(WMul(a, b)), overflow |-> ~FitsU32(WMul(a, b))]
AddU32(a, b) == [val |-> WrapU32(WAdd(a, b)), overflow |-> ~FitsU32(WAdd(a, b))]

\* (button_presses - loop_start_index) / loop_len
Loops(presses, loop_start_index, loop_len) ==
    WDiv(WSub(presses, Wide(loop_start_index)), loop_len)

\* Mutant: a remainder of zero is taken for a whole loop.
TrailingStatesWholeLoop(presses, loop_start_index, loop_len, loops) ==
    LET r == WNat(WSub(WSub(presses, Wide(loop_start_index)),
                       WMul(Wide(loop_len), loops)))
    IN  IF r = 0 THEN loop_len ELSE r

\* button_presses - loop_start_index - loop_len * loops
TrailingStates(presses, loop_start_index, loop_len, loops) ==
    WNat(WSub(WSub(presses, Wide(loop_start_index)), WMul(Wide(loop_len), loops)))

\* Mutant: the pulses of the loop are not multiplied by loops.
CombineUnscaled(a, b, loops, c) ==
    LET s == AddU32(Wide(a), Wide(b))
        t == AddU32(s.val, Wide(c))
    IN  [val |-> t.val, overflow |-> s.overflow \/ t.overflow]

\* a + b * loops + c in u32
Combine(a, b, loops, c) ==
    LET p == MulU32(Wide(b), loops)
        s == AddU32(Wide(a), p.val)
        t == AddU32(s.val, Wide(c))
    IN  [val |-> t.val, overflow |-> p.overflow \/ s.overflow \/ t.overflow]

\* Lines 55-88: the result from the history once the state at
\* loop_start_index has come back.
Extrapolate(states, cache, presses, loop_start_index) ==
    LET loop_len == Len(states) - loop_start_index
        leading_pulses == SumPulses(SubSeq(states, 1, loop_start_index), cache)
        loops == Loops(presses, loop_start_index, loop_len)
        loop_sum ==
            SumPulses(SubSeq(states, loop_start_index + 1, Len(states)), cache)
        trailing_states ==
            TrailingStates(presses, loop_start_index, loop_len, loops)
        trailing_pulses ==
            SumPulses(SubSeq(states, loop_start_index + 1,
                             loop_start_index + trailing_states), cache)
        low == Combine(leading_pulses.low, loop_sum.low, loops, trailing_pulses.low)
        high == Combine(leading_pulses.high, loop_sum.high, loops, trailing_pulses.high)
    IN  [low |-> low.val, high |-> high.val,
         overflow |-> low.overflow \/ high.overflow]

\* handle_button_press returns and the state is in previous_states: pulses
\* returns the extrapolated counts. An overflowing u32 operation panics in
\* a build with overflow checks and wraps in one without.
CycleFound ==
    /\ pc = "press"
    /\ pulse_queue = <<>>
    /\ Position(previous_states, state) # -1
    /\ LET e == Extrapolate(previous_states, state_cache, button_presses,
                            Position(previous_states, state))
       IN  result' = IF e.overflow /\ overflow_checks THEN Panicked
                     ELSE Returned(e.low, e.high)
    /\ pc' = "done"
    /\ UNCHANGED <<lines, overflow_checks, button_presses, modules, i, state,
                   pulse_queue, tally, previous_states, state_cache, total, pushed,
                   handled, visited>>

\* handle_button_press returns and the state is new: lines 90-95.
CycleNotFound ==
    /\ pc = "press"
    /\ pulse_queue = <<>>
    /\ Position(previous_states, state) = -1
    /\ previous_states' = Append(previous_states, state)
    /\ state_cache' = MapInsert(state_cache, state, tally)
    /\ total' = Tally(total.low + tally.low, total.high + tally.high)
    /\ pc' = "loop"
    /\ UNCHANGED <<lines, overflow_checks, button_presses, modules, i, state,
                   pulse_queue, tally, result, pushed, handled, visited>>

\* The for loop is exhausted: line 98.
Return ==
    /\ pc = "loop"
    /\ ~HasNext(i, button_presses)
    /\ result' = Returned(Wide(total.low), Wide(total.high))
    /\ pc' = "done"
    /\ UNCHANGED <<lines, overflow_checks, button_presses, modules, i, state,
                   pulse_queue, tally, previous_states, state_cache, total, pushed,
                   handled, visited>>

Next == BeginPress \/ DeliverPulse \/ CycleFound \/ CycleNotFound \/ Return

Spec == Init /\ [][Next]_vars

\* The program is one thread that runs without pause: while the queue holds
\* an event, the while loop of handle_button_press goes on.
FairSpec == Spec /\ WF_vars(DeliverPulse)

\* ------------------------------------------------- press by press reference

RECURSIVE Drain(_, _, _, _)
\* The while loop of handle_button_press run to its end (or for at most
\* fuel iterations).
Drain(mods, queue, t, fuel) ==
    IF queue = <<>> \/ fuel = 0
    THEN [modules |-> mods, tally |-> t, ended |-> queue = <<>>]
    ELSE LET d == Deliver(mods, Head(queue))
         IN  Drain(d.modules, PushBack(PopFront(queue), d.events),
                   Count(t, Head(queue).pulse), fuel - 1)

\* One call of handle_button_press.
HandleButtonPress(mods) == Drain(mods, <<ButtonEvent>>, Tally(0, 0), MaxEvents)

RECURSIVE Presses(_, _, _)
\* n consecutive calls of handle_button_press, their tallies added to t.
Presses(mods, n, t) ==
    IF n = 0 THEN [modules |-> mods, tally |-> t]
    ELSE LET p == HandleButtonPress(mods)
         IN  Presses(p.modules, n - 1,
                     Tally(t.low + p.tally.low, t.high + p.tally.high))

BruteForce(text, n) == Presses(FromStr(text), n, Tally(0, 0))

\* The press counts small enough to simulate press by press.
SmallPresses == button_presses \in {Wide(n) : n \in 0 .. MaxPresses}

\* The text has a broadcaster line and no other module of that name.
HasBroadcaster(text) ==
    /\ \E k \in 1 .. Len(text) : text[k].prefix = BROADCASTER_ID
    /\ \A k \in 1 .. Len(text) :
           text[k].prefix # BROADCASTER_ID => text[k].id # BROADCASTER_ID

\* ------------------------------------------------------------------ claims

\* C1: for every network and every press count that can be simulated press
\* by press, pulses returns the sum of the tallies of that many consecutive
\* calls of handle_button_press on a fresh copy of the network.
C1_ExtrapolationEqualsBruteForce ==
    (pc = "done" /\ SmallPresses) =>
        LET b == BruteForce(lines, WNat(button_presses)).tally
        IN  result = Returned(Wide(b.low), Wide(b.high))

\* C1, for the networks that have a Broadcaster: the same equality.
ExtrapolationWithBroadcaster ==
    (pc = "done" /\ SmallPresses /\ HasBroadcaster(lines)) =>
        LET b == BruteForce(lines, WNat(button_presses)).tally
        IN  result = Returned(Wide(b.low), Wide(b.high))

\* A cycle was found after a transient and extrapolated over.
ExtrapolatedAfterTransient ==
    /\ pc = "done"
    /\ SmallPresses
    /\ HasBroadcaster(lines)
    /\ Position(previous_states, state) > 0
    /\ WNat(button_presses) > Len(previous_states) + 1

\* The modules of mods whose destination list contains id.
Feeders(mods, id) ==
    {mods[k].id : k \in {x \in DOMAIN mods : Contains(mods[x].destinations, id)}}

Constructed == pc = "loop" /\ i = 0

\* C2: after construction and before any pulse, the inputs of every
\* conjunction are exactly the modules whose destination list contains its
\* name (conjunctions and itself included), each at Low.
C2_ConjunctionInputsAtConstruction ==
    Constructed =>
        \A k \in DOMAIN modules :
            modules[k].kind = "Conjunction" =>
                /\ DOMAIN modules[k].inputs = Feeders(modules, modules[k].id)
                /\ \A x \in DOMAIN modules[k].inputs : modules[k].inputs[x] = Low

\* C3: pulses(1000) on the first network of test_pulses is (8000, 4000).
C3_Example1Thousand ==
    (lines = Example1 /\ button_presses = Wide(1000) /\ pc = "done") =>
        result = Returned(Wide(8000), Wide(4000))

C3_Witness ==
    /\ lines = Example1
    /\ button_presses = Wide(1000)
    /\ pc = "done"
    /\ result.status = "ok"

\* C4: pulses(1000) on the second network of test_pulses, whose "output"
\* names no module, is (4250, 2750).
C4_Example2Thousand ==
    (lines = Example2 /\ button_presses = Wide(1000) /\ pc = "done") =>
        result = Returned(Wide(4250), Wide(2750))

C4_Witness ==
    /\ lines = Example2
    /\ button_presses = Wide(1000)
    /\ pc = "done"
    /\ result.status = "ok"
    /\ "output" \notin DOMAIN modules

\* pulses returned from inside the loop, by extrapolation.
Extrapolated == pc = "done" /\ Len(previous_states) < i

\* a + b * loops + c, not truncated.
ExactCombine(a, b, loops, c) == WAdd(WAdd(Wide(a), WMul(Wide(b), loops)), Wide(c))

\* The totals of lines 55-88 over the integers.
ExactTotals(states, cache, presses, loop_start_index) ==
    LET loop_len == Len(states) - loop_start_index
        leading_pulses == SumPulses(SubSeq(states, 1, loop_start_index), cache)
        loops == Loops(presses, loop_start_index, loop_len)
        loop_sum ==
            SumPulses(SubSeq(states, loop_start_index + 1, Len(states)), cache)
        trailing_states ==
            TrailingStates(presses, loop_start_index, loop_len, loops)
        trailing_pulses ==
            SumPulses(SubSeq(states, loop_start_index + 1,
                             loop_start_index + trailing_states), cache)
    IN  [low |-> ExactCombine(leading_pulses.low, loop_sum.low, loops,
                              trailing_pulses.low),
         high |-> ExactCombine(leading_pulses.high, loop_sum.high, loops,
                               trailing_pulses.high)]

\* C5: for every network and every u32 press count, pulses returns the
\* exact totals: no operation wraps around and none aborts on overflow.
C5_NoOverflow ==
    /\ pc = "done" => result.status = "ok"
    /\ Extrapolated =>
           LET e == ExactTotals(previous_states, state_cache, button_presses,
                                Position(previous_states, state))
           IN  result.low = e.low /\ result.high = e.high

\* The destinations of the modules of S.
Successors(mods, S) ==
    UNION {{mods[k].destinations[n] : n \in 1 .. Len(mods[k].destinations)} :
              k \in S \cap DOMAIN mods}

RECURSIVE ReachableFrom(_, _, _)
ReachableFrom(mods, S, n) ==
    IF n = 0 THEN S
    ELSE ReachableFrom(mods, S \cup Successors(mods, S), n - 1)

\* No module of the network reaches itself along destination lists.
AcyclicWiring(text) ==
    LET mods == FromStr(text)
    IN  \A k \in DOMAIN mods :
            k \notin ReachableFrom(mods, Successors(mods, {k}),
                                   Cardinality(DOMAIN mods))

\* C6: every button press terminates, on every network (duplicate and
\* dangling destinations, modules wired in loops): the queue empties after
\* finitely many dequeues. An iteration of the while loop is a function of
\* the modules and the queue, so a press that terminates is never twice
\* where it has been.
C6_EveryPressTerminates == ~Recurs

\* C6 as amended: on a network whose wiring has no cycle, every button
\* press terminates: its queue empties, which ends the while loop, and the
\* press returns.
C6_AcyclicPressTerminates ==
    []((pc = "press" /\ AcyclicWiring(lines)) => <>(pulse_queue = <<>>))

C6_Witness ==
    /\ AcyclicWiring(lines)
    /\ lines = DupDangling
    /\ pc = "loop"
    /\ i = 2
    /\ tally.low + tally.high = 9

\* 2^(flip-flops) times 2^(inputs) for every conjunction, its inputs being
\* the modules whose destination list contains its name.
StateSpaceSize(text) ==
    LET mods == FromStr(text)
        bits == {<<k, "on">> : k \in {x \in DOMAIN mods : mods[x].kind = "FlipFlop"}}
                    \cup {<<k, f>> : k \in {x \in DOMAIN mods :
                                               mods[x].kind = "Conjunction"},
                                     f \in DOMAIN mods}
        counted == {b \in bits :
                       b[2] = "on" \/ Contains(mods[b[2]].destinations, mods[b[1]].id)}
    IN  2 ^ Cardinality(counted)

\* C7: a repeated pre-press state is found after at most S presses, S the
\* size of the state space, so pulses never simulates more than S + 1
\* presses, whatever the press count.
C7_BoundedCycleSearch ==
    /\ Len(previous_states) <= StateSpaceSize(lines)
    /\ i <= StateSpaceSize(lines) + 1
    /\ (pc = "done" /\ WLess(Wide(StateSpaceSize(lines) + 1), button_presses))
           => Extrapolated

\* The bound is met: S states recorded, S + 1 presses simulated, far fewer
\* than asked for.
C7_Witness ==
    /\ Extrapolated
    /\ button_presses = U32Max
    /\ Len(previous_states) = StateSpaceSize(lines)
    /\ i = StateSpaceSize(lines) + 1
    /\ StateSpaceSize(lines) >= 8

\* C8: a network with no module, or with no module named broadcaster, is
\* rejected at construction: no press is ever simulated or tallied on it.
C8_RejectsMissingBroadcaster ==
    BROADCASTER_ID \notin DOMAIN FromStr(lines) => (i = 0 /\ pc # "press")

\* The next event goes to a conjunction from a source it has not registered.
UnregisteredSource ==
    /\ pc = "press"
    /\ pulse_queue # <<>>
    /\ Head(pulse_queue).destination \in DOMAIN modules
    /\ modules[Head(pulse_queue).destination].kind = "Conjunction"
    /\ Head(pulse_queue).source
           \notin DOMAIN modules[Head(pulse_queue).destination].inputs

\* C9: a pulse to a conjunction from a source that is not a registered
\* input is a fatal error: the conjunction records nothing for the source
\* and emits nothing.
C9_UnregisteredSourceIsFatal ==
    [][UnregisteredSource =>
           /\ modules' = modules
           /\ Len(pulse_queue') < Len(pulse_queue)
           /\ result'.status = "panic"]_vars

\* C10: the input names of every conjunction stay those it was constructed
\* with, whatever pulses are delivered.
C10_InputNamesFixed ==
    \A k \in DOMAIN modules :
        modules[k].kind = "Conjunction" =>
            DOMAIN modules[k].inputs = DOMAIN FromStr(lines)[k].inputs

\* ------------------------------------------------------------------- C11

RECURSIVE Emitted(_)
\* The number of pulses the modules returned for the events handled so far.
Emitted(h) == IF h = <<>> THEN 0 ELSE Len(Head(h).out) + Emitted(Tail(h))

\* The event was addressed to a name that is no module of the network.
ToSink(event) == event.destination \notin DOMAIN modules

\* C11: in every press the tally low + high is the number of events
\* dequeued, and the events dequeued and those still queued are the button
\* pulse and one event per pulse a module emitted, pulses to dangling sinks
\* included; so a press that has returned tallied 1 + emitted pulses.
C11_Conservation ==
    i > 0 =>
        /\ tally.low + tally.high = Len(handled)
        /\ Len(handled) + Len(pulse_queue) = 1 + Emitted(handled)

\* The first press of the second test network has returned: eight events,
\* one of them to the dangling output.
C11_Witness ==
    /\ lines = Example2
    /\ pc = "loop"
    /\ i = 1
    /\ tally.low + tally.high = 8
    /\ Emitted(handled) = 7
    /\ \E k \in DOMAIN handled : ToSink(handled[k].event)

\* ------------------------------------------------------------------- C12

\* Conjunction::state when self.inputs.iter() yields the entries in this
\* order.
InputsState(module, order) ==
    Join(VecSort([n \in DOMAIN order |->
                     <<order[n], "=", PulseDisplay(module.inputs[order[n]])>>]),
         ",")

RECURSIVE PulsesFrom(_, _, _, _, _, _, _)
\* The for loop of pulses from its n-th iteration on, as a function of what
\* the PulseMachine and the locals of pulses hold; NoResult if a press does
\* not return within MaxEvents events.
PulsesFrom(mods, states, cache, t, n, presses, checks) ==
    IF ~HasNext(n, presses) THEN Returned(Wide(t.low), Wide(t.high))
    ELSE LET key == StateKey(mods)
             p == HandleButtonPress(mods)
             at == Position(states, key)
         IN  IF ~p.ended THEN NoResult
             ELSE IF at # -1
             THEN LET e == Extrapolate(states, cache, presses, at)
                  IN  IF e.overflow /\ checks THEN Panicked
                      ELSE Returned(e.low, e.high)
             ELSE PulsesFrom(p.modules, Append(states, key),
                             MapInsert(cache, key, p.tally),
                             Tally(t.low + p.tally.low, t.high + p.tally.high),
                             n + 1, presses, checks)

\* pulses(presses) on a freshly built instance of the network, in a build
\* with or without overflow checks.
Pulses(text, presses, checks) ==
    PulsesFrom(FromStr(text), <<>>, NoInputs, Tally(0, 0), 0, presses, checks)

\* C12: what pulses(N) returns is a function of the network definition and
\* N (and of the build): in whatever order the hash maps are iterated, the
\* key taken before a press and the state string of every conjunction are
\* the same, and the call ends with the one result the function gives.
C12_Deterministic ==
    [][/\ (pc = "loop" /\ pc' = "press") => state' = StateKey(modules)
       /\ \A k \in DOMAIN modules :
              modules[k].kind = "Conjunction" =>
                  \A order \in Orders(DOMAIN modules[k].inputs) :
                      InputsState(modules[k], order) = ConjunctionState(modules[k])
       /\ pc' = "done" =>
              result' = Pulses(lines, button_presses, overflow_checks)]_vars

\* pulses(1000) has returned an extrapolated result on a network of four
\* modules after eight recorded states.
C12_Witness ==
    /\ lines = Transient
    /\ button_presses = Wide(1000)
    /\ pc = "done"
    /\ result.status = "ok"
    /\ result = Pulses(lines, button_presses, overflow_checks)
    /\ Len(previous_states) = 8

\* ------------------------------------------------------------------- C13

\* C13: pulses(0) returns (0, 0) and never calls handle_button_press: no
\* iteration of the for loop begins, no event is pushed or popped and the
\* modules stay as from_str built them.
C13_ZeroPresses ==
    button_presses = Wide(0) =>
        /\ i = 0
        /\ pc # "press"
        /\ pulse_queue = <<>> /\ pushed = <<>> /\ handled = <<>>
        /\ modules = FromStr(lines)
        /\ pc = "done" => result = Returned(Wide(0), Wide(0))

\* pulses(0) has returned on the first test network.
C13_Witness ==
    /\ lines = Example1
    /\ button_presses = Wide(0)
    /\ pc = "done"
    /\ result = Returned(Wide(0), Wide(0))

\* ------------------------------------------------------------------- C14

\* C14: when the event at the head of the queue is addressed to a name
\* that is no module, the step that handles it adds one to the count of
\* its polarity and to nothing else, leaves every module as it was, pushes
\* no event, and the press goes on with the rest of the queue without an
\* error.
C14_DanglingSink ==
    [][(pc = "press" /\ pulse_queue # <<>> /\ ToSink(Head(pulse_queue))) =>
          /\ tally'.low =
                 tally.low + (IF Head(pulse_queue).pulse = Low THEN 1 ELSE 0)
          /\ tally'.high =
                 tally.high + (IF Head(pulse_queue).pulse = High THEN 1 ELSE 0)
          /\ modules' = modules
          /\ pulse_queue' = Tail(pulse_queue)
          /\ pushed' = pushed
          /\ pc' = "press"
          /\ result' = NoResult]_vars

\* A low and a high pulse to a dangling name have been handled in one
\* press, and an event popped after the first of them was handled by a
\* module.
C14_Witness ==
    /\ pc = "press"
    /\ \E k, m, n \in DOMAIN handled :
           /\ k < n
           /\ ToSink(handled[k].event) /\ ToSink(handled[m].event)
           /\ handled[k].event.pulse = Low /\ handled[m].event.pulse = High
           /\ ~ToSink(handled[n].event)

\* ------------------------------------------------------------------- C15

\* The event at the head of the queue is addressed to a module of this kind.
HeadTo(kind) ==
    /\ pc = "press"
    /\ pulse_queue # <<>>
    /\ ~ToSink(Head(pulse_queue))
    /\ modules[Head(pulse_queue).destination].kind = kind

\* All the modules but this one are left as they were.
OthersUnchanged(id) ==
    /\ DOMAIN modules' = DOMAIN modules
    /\ \A k \in DOMAIN modules \ {id} : modules'[k] = modules[k]

\* The queue has lost its head and gained, at its tail, one event from id
\* with this pulse for every entry of the destination list, in its order.
Sent(id, destinations, pulse) ==
    pulse_queue' =
        Tail(pulse_queue) \o
        [n \in 1 .. Len(destinations) |-> Event(id, destinations[n], pulse)]

\* C15: a conjunction that receives pulse p from a source first stores p as
\* the last value for that source, all other stored values staying, and
\* then sends one pulse to every entry of its destination list, in order
\* and duplicates included: Low if every stored value is High after the
\* update, High otherwise.
C15_ConjunctionReceive ==
    [][HeadTo("Conjunction") =>
          LET e == Head(pulse_queue)
              before == modules[e.destination]
              after == modules'[e.destination]
          IN  /\ DOMAIN after.inputs = DOMAIN before.inputs \cup {e.source}
              /\ after.inputs[e.source] = e.pulse
              /\ \A x \in DOMAIN before.inputs \ {e.source} :
                     after.inputs[x] = before.inputs[x]
              /\ after.destinations = before.destinations
              /\ OthersUnchanged(e.destination)
              /\ Sent(before.id, before.destinations,
                      IF \A x \in DOMAIN after.inputs : after.inputs[x] = High
                      THEN Low ELSE High)]_vars

\* The conjunction with two inputs and a duplicate destination has sent two
\* high pulses and then, all its inputs high, two low ones.
C15_Witness ==
    /\ lines = DupConj
    /\ pc = "press"
    /\ \E k, n \in DOMAIN handled :
           /\ k < n
           /\ handled[k].event.destination = "con"
           /\ handled[k].out = <<<<"out", High>>, <<"out", High>>>>
           /\ handled[n].event.destination = "con"
           /\ handled[n].out = <<<<"out", Low>>, <<"out", Low>>>>
    /\ \A x \in DOMAIN modules["con"].inputs : modules["con"].inputs[x] = High
    /\ Cardinality(DOMAIN modules["con"].inputs) = 2

\* ------------------------------------------------------------------- C16

\* The names a pulse can come from.
Sources == {NameOrder[k] : k \in DOMAIN NameOrder}

\* C16: a flip-flop that receives a high pulse stays as it is and sends
\* nothing; one that receives a low pulse toggles `on` and sends one pulse
\* to every entry of its destination list, in order: High if it is now on,
\* Low if it is now off. The name of the source makes no difference.
C16_FlipFlopReceive ==
    [][HeadTo("FlipFlop") =>
          LET e == Head(pulse_queue)
              before == modules[e.destination]
              after == modules'[e.destination]
          IN  /\ OthersUnchanged(e.destination)
              /\ e.pulse = High =>
                     after = before /\ pulse_queue' = Tail(pulse_queue)
              /\ e.pulse = Low =>
                     /\ after.on = ~before.on
                     /\ after.destinations = before.destinations
                     /\ Sent(before.id, before.destinations,
                             IF after.on THEN High ELSE Low)
              /\ \A s \in Sources :
                     FlipFlopHandlePulse(before, e.pulse, s) =
                         FlipFlopHandlePulse(before, e.pulse, e.source)]_vars

\* In one press flip-flop a was switched on and off by two low pulses and
\* flip-flop b ignored a high pulse.
C16_Witness ==
    /\ lines = DupDangling
    /\ pc = "press"
    /\ \E k, m, n \in DOMAIN handled :
           /\ k < n
           /\ handled[k].event.destination = "a"
           /\ handled[k].out = <<<<"b", High>>, <<"out", High>>>>
           /\ handled[n].event.destination = "a"
           /\ handled[n].out = <<<<"b", Low>>, <<"out", Low>>>>
           /\ handled[m].event = Event("a", "b", High)
           /\ handled[m].out = <<>>

\* ------------------------------------------------------------------- C17

\* The modules without the one of this name.
Without(mods, id) == [k \in DOMAIN mods \ {id} |-> mods[k]]

\* C17: the broadcaster sends the pulse it receives, unchanged, to every
\* entry of its destination list, in order, whatever the source; it has no
\* state: no module changes when it handles a pulse, the same pulse gives
\* the same output again, and the state key of the machine is the key of
\* the machine without the broadcaster.
C17_BroadcasterReceive ==
    [][HeadTo("Broadcaster") =>
          LET e == Head(pulse_queue)
              before == modules[e.destination]
          IN  /\ modules' = modules
              /\ Sent(before.id, before.destinations, e.pulse)
              /\ \A s \in Sources, p \in {Low, High} :
                     LET r == BroadcasterHandlePulse(before, p, s)
                     IN  /\ r.out = [n \in 1 .. Len(before.destinations) |->
                                        <<before.destinations[n], p>>]
                         /\ BroadcasterHandlePulse(r.module, p, s) = r
              /\ BroadcasterState(before) = <<>>
              /\ StateKey(modules) = StateKey(Without(modules, e.destination))
              /\ StateKey(modules') = StateKey(modules)]_vars

\* The broadcaster has passed on the button's low pulse and then a high
\* pulse that a flip-flop sent to it.
C17_Witness ==
    /\ lines = Feedback
    /\ pc = "press"
    /\ \E k, n \in DOMAIN handled :
           /\ k < n
           /\ handled[k].event = ButtonEvent
           /\ handled[k].out = <<<<"a", Low>>, <<"out", Low>>>>
           /\ handled[n].event = Event("a", BROADCASTER_ID, High)
           /\ handled[n].out = <<<<"a", High>>, <<"out", High>>>>

\* ------------------------------------------------------------------- C18

\* What a module sends when it sends this pulse.
AllOf(module, pulse) ==
    [n \in 1 .. Len(module.destinations) |-> <<module.destinations[n], pulse>>]

\* The low pulses handled by module id in the current press.
LowsTo(id) ==
    SelectSeq(handled,
              LAMBDA h : h.event.destination = id /\ h.event.pulse = Low)

\* C18: two consecutive low pulses to a flip-flop as FlipFlop::new built it
\* (off) leave it off again; the first makes it send High and the second
\* Low to each of its destinations. This holds of handle_pulse applied
\* twice to every flip-flop of the network before the first press, and of
\* the first two low pulses each flip-flop handles in the first press.
C18_FlipFlopTwoLows ==
    /\ i = 0 =>
           \A k \in DOMAIN modules :
               modules[k].kind = "FlipFlop" =>
                   \A s, t \in Sources :
                       LET f == modules[k]
                           first == FlipFlopHandlePulse(f, Low, s)
                           second == FlipFlopHandlePulse(first.module, Low, t)
                       IN  /\ ~f.on
                           /\ first.out = AllOf(f, High)
                           /\ second.out = AllOf(f, Low)
                           /\ second.module = f
    /\ i = 1 =>
           \A k \in DOMAIN modules :
               (modules[k].kind = "FlipFlop" /\ Len(LowsTo(k)) >= 2) =>
                   /\ LowsTo(k)[1].out = AllOf(modules[k], High)
                   /\ LowsTo(k)[2].out = AllOf(modules[k], Low)
                   /\ Len(LowsTo(k)) = 2 => modules[k] = FromStr(lines)[k]

\* In the first press flip-flop a has handled two low pulses and is off.
C18_Witness ==
    /\ lines = DupDangling
    /\ i = 1
    /\ Len(LowsTo("a")) = 2
    /\ LowsTo("a")[1].out = <<<<"b", High>>, <<"out", High>>>>
    /\ LowsTo("a")[2].out = <<<<"b", Low>>, <<"out", Low>>>>
    /\ ~modules["a"].on

\* ------------------------------------------------------------------- C19

\* The conjunctions of the machine whose stored inputs are all High.
AllHigh ==
    {k \in DOMAIN modules :
        /\ modules[k].kind = "Conjunction"
        /\ DOMAIN modules[k].inputs # {}
        /\ \A x \in DOMAIN modules[k].inputs : modules[k].inputs[x] = High}

\* The conjunction with the stored value of input x changed to Low.
Lowered(module, x) == [module EXCEPT !.inputs[x] = Low]

\* C19: a conjunction whose stored inputs are all High sends Low when an
\* input sends it High; and once one stored input x has been changed to
\* Low, the next pulse it receives, from any of its inputs and of either
\* polarity, makes it send High.
C19_ConjunctionLaw ==
    \A k \in AllHigh :
        LET c == modules[k]
        IN  \A x, y \in DOMAIN c.inputs :
                /\ ConjunctionHandlePulse(c, High, y).out = AllOf(c, Low)
                /\ \A p \in {Low, High} :
                       ConjunctionHandlePulse(Lowered(c, x), p, y).out =
                           AllOf(c, High)

\* C19 as amended: a conjunction whose stored inputs are all High sends Low
\* when an input sends it High; once one stored input x has been changed to
\* Low, the next pulse it receives makes it send High if it is a low pulse
\* or comes from another input than x, and Low if it is a high pulse from x
\* itself, which makes all stored inputs High again.
C19_ConjunctionLawAmended ==
    \A k \in AllHigh :
        LET c == modules[k]
        IN  \A x, y \in DOMAIN c.inputs :
                /\ ConjunctionHandlePulse(c, High, y).out = AllOf(c, Low)
                /\ \A p \in {Low, High} :
                       ConjunctionHandlePulse(Lowered(c, x), p, y).out =
                           AllOf(c, IF y = x /\ p = High THEN Low ELSE High)

\* On the second test network the conjunction con, with the two inputs a
\* and b, holds High for both and has just sent Low to output.
C19_Witness ==
    /\ lines = Example2
    /\ "con" \in AllHigh
    /\ DOMAIN modules["con"].inputs = {"a", "b"}
    /\ handled # <<>>
    /\ handled[Len(handled)].event.destination = "con"
    /\ handled[Len(handled)].out = <<<<"output", Low>>>>

\* ------------------------------------------------------------------- C20

\* The events popped in the current press, in the order of the pops.
Popped == [k \in DOMAIN handled |-> handled[k].event]

RECURSIVE Pushes(_)
\* The events that follow from what the modules returned, module after
\* module in the order they handled their events: one event per returned
\* pulse, in the order returned, with the handling module as source.
Pushes(h) ==
    IF h = <<>> THEN <<>>
    ELSE [n \in DOMAIN Head(h).out |->
             Event(Head(h).event.destination, Head(h).out[n][1], Head(h).out[n][2])]
         \o Pushes(Tail(h))

\* C20: within a press the events are popped in exactly the order they
\* were pushed (the popped events followed by the queue are the pushed
\* events, so no event is handled before one pushed earlier); what a module
\* sends goes to the tail of the queue, one event per entry of its
\* destination list and in its order, with the module's name as source.
C20_Fifo ==
    i > 0 =>
        /\ Popped \o pulse_queue = pushed
        /\ pushed = <<ButtonEvent>> \o Pushes(handled)
        /\ \A k \in DOMAIN handled :
               handled[k].out # <<>> =>
                   LET module == modules[handled[k].event.destination]
                   IN  /\ module.id = handled[k].event.destination
                       /\ [n \in DOMAIN handled[k].out |-> handled[k].out[n][1]]
                              = module.destinations

\* On the first test network the broadcaster, a and b have handled their
\* events: the queue holds the broadcaster's third event ahead of those
\* that a and b sent later.
C20_Witness ==
    /\ lines = Example1
    /\ pc = "press"
    /\ Len(handled) = 3
    /\ pulse_queue = <<Event(BROADCASTER_ID, "c", Low), Event("a", "b", High),
                       Event("b", "c", High)>>

\* ------------------------------------------------------------------- C21

\* The modules of a fresh machine after n button presses.
AfterPresses(n) == Presses(FromStr(lines), n, Tally(0, 0)).modules

\* The key taken before the current press is in the history: the press is
\* under way, or pulses has returned the extrapolated result.
Matched ==
    /\ i > 0
    /\ Position(previous_states, state) # -1
    /\ pc = "press" \/ Extrapolated

\* C21: when the key taken before a press is the key recorded before an
\* earlier press, that press is not simulated: no event of it is handled,
\* and the modules are, then and when pulses returns, as the presses before
\* it left them (as many presses applied as the history has entries).
C21_MatchedPressNotSimulated ==
    Matched =>
        /\ handled = <<>>
        /\ tally = Tally(0, 0)
        /\ modules = AfterPresses(Len(previous_states))

\* ------------------------------------------------------------------- C22

\* What the flip-flops and conjunctions of a machine hold.
Stateful(mods) ==
    [k \in {x \in DOMAIN mods : mods[x].kind # "Broadcaster"} |->
        IF mods[k].kind = "FlipFlop" THEN <<mods[k].on>> ELSE mods[k].inputs]

\* Every flip-flop and every conjunction has its entry in the key, and the
\* machine holds now what it held before any earlier press with the same
\* key.
KeyEncodesState ==
    /\ \A k \in DOMAIN modules :
           modules[k].kind # "Broadcaster" =>
               StateKey(Without(modules, k)) # StateKey(modules)
    /\ pc = "loop" =>
           \A n \in 0 .. i - 1 :
               StateKey(AfterPresses(n)) = StateKey(modules) =>
                   Stateful(AfterPresses(n)) = Stateful(modules)

\* C22: the key encodes every stateful module: no flip-flop and no
\* conjunction is left out of it, whatever its name, and two states of a
\* network with equal keys have the same `on` in every flip-flop and the
\* same input map in every conjunction.
C22_KeyEncodesEveryStatefulModule == KeyEncodesState

\* C22, for the networks that have a Broadcaster: the same.
KeyEncodesStateWithBroadcaster == HasBroadcaster(lines) => KeyEncodesState

\* A network with a Broadcaster has come back to the key of an earlier
\* press after some presses with other keys.
KeyRepeatsWithBroadcaster ==
    /\ HasBroadcaster(lines)
    /\ pc = "loop"
    /\ i >= 4
    /\ \E n \in 0 .. i - 1 : StateKey(AfterPresses(n)) = StateKey(modules)

\* ------------------------------------------------------------------- C23

\* C23: the key is canonical: wherever pulses takes the key, in whatever
\* order modules.values() yields the modules and in whatever order a
\* conjunction's inputs.iter() yields its entries, the string built from
\* the flip-flop values and the input maps the machine holds is one and the
\* same.
C23_KeyCanonical ==
    pc = "loop" =>
        /\ \A order \in Orders(DOMAIN modules) :
               State(modules, order) = StateKey(modules)
        /\ \A k \in DOMAIN modules :
               modules[k].kind = "Conjunction" =>
                   \A order \in Orders(DOMAIN modules[k].inputs) :
                       InputsState(modules[k], order) =
                           ConjunctionState(modules[k])

\* A machine with two flip-flops and a conjunction of two inputs, after
\* a press has changed them: 24 orders of the modules, two of the inputs.
C23_Witness ==
    /\ lines = Acyclic
    /\ pc = "loop"
    /\ i = 1
    /\ Cardinality(Orders(DOMAIN modules)) = 24
    /\ Cardinality(Orders(DOMAIN modules["con"].inputs)) = 2
    /\ modules["a"].on

\* ------------------------------------------------------------------- C24

RECURSIVE DrainDepthFirst(_, _, _, _)
\* The loop of handle_button_press with the events a module sends put in
\* front of the waiting ones, so that they are handled first.
DrainDepthFirst(mods, stack, t, fuel) ==
    IF stack = <<>> \/ fuel = 0
    THEN [modules |-> mods, tally |-> t, ended |-> stack = <<>>]
    ELSE LET d == Deliver(mods, Head(stack))
         IN  DrainDepthFirst(d.modules, PushFront(PopFront(stack), d.events),
                             Count(t, Head(stack).pulse), fuel - 1)

\* One press handled depth-first.
DepthFirstPress(mods) ==
    DrainDepthFirst(mods, <<ButtonEvent>>, Tally(0, 0), MaxEvents)

\* C24: the order of the queue matters: the third press of the second test
\* network, handled first-in first-out by the machine, ends with another
\* tally or other module contents than the same press handled depth-first
\* from the same modules.
C24_FifoMatters ==
    (lines = Example2 /\ pc = "loop" /\ i = 3) =>
        LET d == DepthFirstPress(AfterPresses(2))
        IN  d.ended /\ (d.tally # tally \/ d.modules # modules)

\* The third press of the second test network has returned with five low
\* and three high pulses; depth-first it has four of each.
C24_Witness ==
    /\ lines = Example2
    /\ pc = "loop"
    /\ i = 3
    /\ tally = Tally(5, 3)
    /\ DepthFirstPress(AfterPresses(2)).tally = Tally(4, 4)

\* ------------------------------------------------------------------- C25

\* C25: every press starts with the queue holding exactly one event, from
\* "button" to "broadcaster" with a low pulse, and nothing counted; that
\* event is the first one pushed and the first one handled, so the tally of
\* every press that has handled an event, and of every press that has
\* returned, has low >= 1.
C25_ButtonPulse ==
    i > 0 =>
        LET button == [source |-> "button", destination |-> "broadcaster",
                       pulse |-> "Low"]
        IN  /\ pushed[1] = button
            /\ handled = <<>> => (pulse_queue = <<button>> /\ tally = Tally(0, 0))
            /\ handled # <<>> => (handled[1].event = button /\ tally.low >= 1)
            /\ pc # "press" => tally.low >= 1

\* The first press of a network without broadcaster has returned: the
\* button pulse is all it counted.
C25_Witness ==
    /\ lines = NoBroadcaster
    /\ pc = "loop"
    /\ i = 1
    /\ tally = Tally(1, 0)
    /\ Len(handled) = 1

\* ------------------------------------------------------------------- C26

\* The names of the modules, and the variant, the name and the ordered
\* destination list of each.
Topology(mods) ==
    [k \in DOMAIN mods |->
        [kind |-> mods[k].kind, id |-> mods[k].id,
         destinations |-> mods[k].destinations]]

\* C26: whatever has been delivered, the machine has the module names, the
\* variants and the ordered destination lists from_str gave it; a
\* broadcaster is as built, a flip-flop differs from the built one in `on`
\* at most and a conjunction in its stored inputs at most.
C26_TopologyFixed ==
    LET built == FromStr(lines)
    IN  /\ Topology(modules) = Topology(built)
        /\ \A k \in DOMAIN modules :
               /\ modules[k].kind = "Broadcaster" => modules[k] = built[k]
               /\ modules[k].kind = "FlipFlop" =>
                      [modules[k] EXCEPT !.on = built[k].on] = built[k]
               /\ modules[k].kind = "Conjunction" =>
                      [modules[k] EXCEPT !.inputs = built[k].inputs] = built[k]

\* pulses(1000) has returned on the second test network after five presses
\* that left flip-flops and conjunctions with other contents than built.
C26_Witness ==
    /\ lines = Example2
    /\ button_presses = Wide(1000)
    /\ pc = "done"
    /\ i = 5
    /\ modules["a"].on /\ modules["b"].on
    /\ modules["con"].inputs # FromStr(lines)["con"].inputs
    /\ Topology(modules) = Topology(FromStr(lines))

\* ------------------------------------------------------------------- C27

\* A press that began with a key of the history has returned.
MatchedPressReturned == Matched /\ pulse_queue = <<>>

\* The press that has returned counted what the earlier press with the
\* same key counted, and left the machine with the key that press left.
SameKeySamePress ==
    MatchedPressReturned =>
        LET at == Position(previous_states, state) + 1
        IN  /\ tally = state_cache[state]
            /\ StateKey(modules) =
                   IF at < Len(previous_states) THEN previous_states[at + 1]
                   ELSE state

\* C27: a press is a function of the key: two presses of a network that
\* start from states with equal keys return equal tallies and leave states
\* with equal keys.
C27_MemoizationSound == SameKeySamePress

\* C27, for the networks that have a Broadcaster: the same.
SameKeySamePressWithBroadcaster == HasBroadcaster(lines) => SameKeySamePress

\* On a network with a Broadcaster a press with a key of the history has
\* returned, the cycle being longer than one press.
MatchedWithBroadcaster ==
    /\ HasBroadcaster(lines)
    /\ MatchedPressReturned
    /\ Position(previous_states, state) + 1 < Len(previous_states)

\* ------------------------------------------------------------------- C28

\* C28: when pulses(N) has returned, the modules are those of a fresh copy
\* after exactly N button presses, whether the result was added up press by
\* press or extrapolated.
C28_FinalStateAfterNPresses ==
    (pc = "done" /\ SmallPresses) =>
        modules = BruteForce(lines, WNat(button_presses)).modules

\* C28 as amended: when pulses(N) has returned, the modules are those of a
\* fresh copy after exactly the presses pulses simulated: N of them if the
\* result was added up press by press; one more than the recorded states,
\* and at most N, if it was extrapolated.
C28_FinalStateAfterSimulatedPresses ==
    pc = "done" =>
        /\ modules = AfterPresses(i)
        /\ ~Extrapolated => Wide(i) = button_presses
        /\ Extrapolated =>
               /\ i = Len(previous_states) + 1
               /\ ~WLess(button_presses, Wide(i))

\* pulses(4294967295) has returned an extrapolated result after nine
\* presses, the ninth having changed the modules.
C28_Witness ==
    /\ lines = Transient
    /\ button_presses = U32Max
    /\ Extrapolated
    /\ i = 9
    /\ modules = AfterPresses(9)
    /\ modules # AfterPresses(8)

\* ------------------------------------------------------------------- C29

\* C29: at the head of every iteration of the for loop of pulses,
\* previous_states has one entry per press simulated so far, the k-th being
\* the key of the machine before the k-th press; the entries are pairwise
\* different; the keys of state_cache are exactly these entries and each is
\* mapped to the tally of the press that began with it.
C29_HistoryInvariant ==
    pc = "loop" =>
        /\ Len(previous_states) = i
        /\ \A k \in 1 .. i :
               /\ previous_states[k] = StateKey(AfterPresses(k - 1))
               /\ state_cache[previous_states[k]] =
                      HandleButtonPress(AfterPresses(k - 1)).tally
        /\ \A k, n \in 1 .. i :
               previous_states[k] = previous_states[n] => k = n
        /\ DOMAIN state_cache = {previous_states[k] : k \in 1 .. i}

\* Eight presses of the network of four flip-flops are recorded, with
\* tallies that differ.
C29_Witness ==
    /\ lines = Transient
    /\ pc = "loop"
    /\ i = 8
    /\ Cardinality(DOMAIN state_cache) = 8
    /\ state_cache[previous_states[1]] # state_cache[previous_states[2]]

\* ------------------------------------------------------------------- C30

\* C30: whenever the key taken before a press is found in the history, at
\* index j with L = len - j, then j < N and L >= 1; loops = (N - j) / L is
\* the exact quotient and at least 1; the remainder N - j - L * loops is in
\* 0 .. L - 1, no subtraction going below zero; and the trailing slice
\* from j to j + remainder lies inside the history.
C30_IndexSafety ==
    MatchedPressReturned =>
        LET j == Position(previous_states, state)
            L == Len(previous_states) - j
            loops == Loops(button_presses, j, L)
            covered == WMul(Wide(L), loops)
            remainder == TrailingStates(button_presses, j, L, loops)
        IN  /\ WLess(Wide(j), button_presses)
            /\ L >= 1
            /\ WLess(Wide(0), loops)
            /\ ~WLess(WSub(button_presses, Wide(j)), covered)
            /\ WAdd(WAdd(Wide(j), covered), Wide(remainder)) = button_presses
            /\ remainder \in 0 .. L - 1
            /\ j + remainder <= Len(previous_states)

\* pulses(4294967295) has found, after eight recorded states, the key of
\* index 4: a loop of four presses and a remainder of three.
C30_Witness ==
    /\ lines = Transient
    /\ button_presses = U32Max
    /\ Extrapolated
    /\ Position(previous_states, state) = 4
    /\ Len(previous_states) = 8
    /\ TrailingStates(button_presses, 4, 4, Loops(button_presses, 4, 4)) = 3

====
